---- MODULE Spec2Model ----
(***************************************************************************)
(* State-machine model of scripts/monitor.js: configuration selection, the *)
(* main script, the Node.js event loop driving the two setInterval timers, *)
(* and the health-check / forecast / retrain callbacks.                    *)
(*                                                                         *)
(* Numbers produced by Math.random() are fixed-point: a draw r stands for  *)
(* the float r / Unit in [0, 1), and every value derived from a draw keeps *)
(* the same 1/Unit resolution.  Callbacks are synchronous and take no      *)
(* model time; the clock moves only while the event loop is idle.          *)
(***************************************************************************)
EXTENDS Integers, Sequences, FiniteSets, TLC

\* ---------------------------------------------------------------- bounds
\* The event loop stops advancing the clock after this many firings of the
\* health-check timer.
MaxFirings == 8

\* ------------------------------------------------------- number modelling
Unit == 10 ^ 5

\* Representative results of Math.random(), in 1/Unit: the lowest and the
\* highest value, and the two values around 0.75.
RandomDraws == {0, 75000, 75001, 99999}

\* Number.prototype.toFixed(2) of a non-negative value v (in 1/Unit): the
\* value in hundredths, rounded to nearest.
ToFixed2(v) == (v + 500) \div 1000

\* Math.floor of a non-negative value v (in 1/Unit).
Floor(v) == v \div Unit

\* ------------------------------------------------------------ environment
\* process.env.X of a variable that is not set.
Unset == "<unset>"

NodeEnvInputs == {Unset, "", "production", "development", "staging", "constructor"}
AiModeInputs == {Unset, "", "true", "TRUE", "1", "false"}

\* ---------------------------------------------------------- configuration
\* The value `undefined`.
Undefined == [undefined |-> TRUE]

\* Property names every object literal inherits from Object.prototype.
ObjectPrototypeKeys == {"constructor", "toString", "hasOwnProperty", "valueOf"}

\* An inherited member of Object.prototype (a function): it has none of the
\* configuration properties.
InheritedMember == [inherited |-> TRUE]

baseConfig ==
  [production  |-> [interval |-> 60000, alertThreshold |-> 80, debugMode |-> FALSE],
   development |-> [interval |-> 5000, alertThreshold |-> 90, debugMode |-> TRUE,
                    verboseLogging |-> TRUE]]

aiConfig ==
  [interval |-> 30000, alertThreshold |-> 75,
   metricsEndpoint |-> "http://localhost:9000/metrics",
   aiEnabled |-> TRUE,
   mlModelPath |-> "./models/anomaly-detection.h5",
   cloudProviders |-> <<"aws", "azure", "gcp">>,
   predictiveWindow |-> 300]

\* process.env.NODE_ENV || 'production'
EnvOf(nodeEnv) == IF nodeEnv = Unset \/ nodeEnv = "" THEN "production" ELSE nodeEnv

\* !!process.env.AI_MODE: every non-empty value enables AI.
AiModeOfTruthy(aiMode) == aiMode # Unset /\ aiMode # ""

\* process.env.AI_MODE === 'true'
AiModeOf(aiMode) == aiMode = "true"

\* baseConfig[key]
BaseConfigLookup(key) ==
  IF key \in DOMAIN baseConfig THEN baseConfig[key]
  ELSE IF key \in ObjectPrototypeKeys THEN InheritedMember
  ELSE Undefined

\* AI_MODE ? aiConfig : baseConfig[ENV], with the mode of the AI profile
\* taken from the base profile when there is one.
SelectConfigKeepBase(e, ai) ==
  IF ai /\ e \in DOMAIN baseConfig
    THEN [k \in DOMAIN aiConfig |->
            IF k \in DOMAIN baseConfig[e] THEN baseConfig[e][k] ELSE aiConfig[k]]
    ELSE IF ai THEN aiConfig ELSE BaseConfigLookup(e)

\* AI_MODE ? aiConfig : baseConfig[ENV]
SelectConfig(e, ai) == IF ai THEN aiConfig ELSE BaseConfigLookup(e)

\* obj.name is read and is truthy (a missing property reads as undefined).
Truthy(obj, name) == name \in DOMAIN obj /\ obj[name] = TRUE

\* The delay setInterval uses for the argument obj.interval: a delay that is
\* not a number in 1 .. 2^31-1 is replaced by 1.
TimerDelay(obj) ==
  IF "interval" \in DOMAIN obj /\ obj.interval >= 1 /\ obj.interval <= 2147483647
    THEN obj.interval ELSE 1

RetrainPeriod == 120000

\* ------------------------------------------------------------------ state
VARIABLES
  env,            \* process.env: [NODE_ENV, AI_MODE]
  ENV,            \* const ENV
  AI_MODE,        \* const AI_MODE
  config,         \* const config
  pc,             \* position of the single JavaScript thread
  caller,         \* who called checkSystemHealth: "main" or "timer"
  now,            \* clock, ms since process start
  timers,         \* the two interval timers
  inflight,       \* started and not yet returned invocations per task
  cloudIdx,       \* forEach index in monitorAIHealth
  cloudEntry,     \* values printed by the current forEach iteration
  sample,         \* locals cpu, memory, disk of monitorAIHealth
  prediction,     \* local prediction of predictFutureMetrics
  tickLog,        \* console lines of the current / last health check
  retrainLog,     \* console lines of the current / last retrain callback
  healthTicks,    \* calls of checkSystemHealth so far
  healthFirings,  \* firings of the health-check timer so far
  retrainFirings  \* firings of the retrain timer so far

vars == <<env, ENV, AI_MODE, config, pc, caller, now, timers, inflight,
          cloudIdx, cloudEntry, sample, prediction, tickLog, retrainLog,
          healthTicks, healthFirings, retrainFirings>>

Tasks == {"health", "retrain"}

NoTimer == [armed |-> FALSE, period |-> 0, due |-> 0]
NoEntry == [set |-> FALSE]
NoSample == [set |-> FALSE]
NoPrediction == [set |-> FALSE]

Line(kind) == <<kind, "">>

\* Lines 11-48: the constants are evaluated and the banner printed.
Init ==
  /\ env \in [NODE_ENV : NodeEnvInputs, AI_MODE : AiModeInputs]
  /\ ENV = EnvOf(env.NODE_ENV)
  /\ AI_MODE = AiModeOf(env.AI_MODE)
  /\ config = SelectConfig(ENV, AI_MODE)
  /\ pc = "main_135"
  /\ caller = "none"
  /\ now = 0
  /\ timers = [t \in Tasks |-> NoTimer]
  /\ inflight = [t \in Tasks |-> 0]
  /\ cloudIdx = 0
  /\ cloudEntry = NoEntry
  /\ sample = NoSample
  /\ prediction = NoPrediction
  /\ tickLog = << >>
  /\ retrainLog = << >>
  /\ healthTicks = 0
  /\ healthFirings = 0
  /\ retrainFirings = 0

locals == <<cloudIdx, cloudEntry, sample, prediction>>
consts == <<env, ENV, AI_MODE, config>>
counters == <<healthTicks, healthFirings, retrainFirings>>

\* ------------------------------------------------------------ main script
\* Line 135 with config undefined: reading config.interval throws a
\* TypeError nothing catches; the process exits.
StartupTypeError ==
  /\ pc = "main_135"
  /\ config = Undefined
  /\ pc' = "crashed"
  /\ UNCHANGED <<consts, caller, now, timers, inflight, locals, tickLog,
                 retrainLog, counters>>

\* Lines 135-136: setInterval(checkSystemHealth, config.interval).
ArmHealthTimer ==
  /\ pc = "main_135"
  /\ config # Undefined
  /\ timers' = [timers EXCEPT !["health"] =
                  [armed |-> TRUE, period |-> TimerDelay(config),
                   due |-> now + TimerDelay(config)]]
  /\ pc' = "main_137"
  /\ UNCHANGED <<consts, caller, now, inflight, locals, tickLog, retrainLog,
                 counters>>

\* Line 137 without the call: the script goes on to line 140.
SkipEagerTick ==
  /\ pc = "main_137"
  /\ pc' = "main_140"
  /\ UNCHANGED <<consts, caller, now, timers, inflight, locals, tickLog,
                 retrainLog, counters>>

\* Line 137: checkSystemHealth() called from the main script.
EagerTick ==
  /\ pc = "main_137"
  /\ pc' = "check"
  /\ caller' = "main"
  /\ inflight' = [inflight EXCEPT !["health"] = @ + 1]
  /\ healthTicks' = healthTicks + 1
  /\ tickLog' = << >>
  /\ UNCHANGED <<consts, now, timers, locals, retrainLog, healthFirings,
                 retrainFirings>>

\* Lines 140-146 with the condition dropped.
ArmRetrainTimerAlways ==
  /\ pc = "main_140"
  /\ timers' = [timers EXCEPT !["retrain"] =
                  [armed |-> TRUE, period |-> RetrainPeriod,
                   due |-> now + RetrainPeriod]]
  /\ pc' = "loop"
  /\ UNCHANGED <<consts, caller, now, inflight, locals, tickLog, retrainLog,
                 counters>>

\* Lines 140-146: if (AI_MODE && config.aiEnabled) setInterval(..., 120000);
\* the main script then ends and the event loop takes over.
ArmRetrainTimer ==
  /\ pc = "main_140"
  /\ timers' = IF AI_MODE /\ Truthy(config, "aiEnabled")
                 THEN [timers EXCEPT !["retrain"] =
                         [armed |-> TRUE, period |-> RetrainPeriod,
                          due |-> now + RetrainPeriod]]
                 ELSE timers
  /\ pc' = "loop"
  /\ UNCHANGED <<consts, caller, now, inflight, locals, tickLog, retrainLog,
                 counters>>

\* ------------------------------------------------------- checkSystemHealth
\* Lines 127-133: dispatch on AI_MODE.
CheckSystemHealth ==
  /\ pc = "check"
  /\ pc' = IF AI_MODE THEN "ai_69" ELSE "basic_52"
  /\ UNCHANGED <<consts, caller, now, timers, inflight, locals, tickLog,
                 retrainLog, counters>>

\* Return of checkSystemHealth with the timer cleared (clearInterval) after a
\* timer-driven check.
ReturnFromCheckClear ==
  /\ pc = "check_ret"
  /\ inflight' = [inflight EXCEPT !["health"] = @ - 1]
  /\ IF caller = "main"
       THEN /\ pc' = "main_140"
            /\ UNCHANGED timers
       ELSE /\ pc' = "loop"
            /\ timers' = [timers EXCEPT !["health"] = NoTimer]
  /\ caller' = "none"
  /\ UNCHANGED <<consts, now, locals, tickLog, retrainLog, counters>>

\* Return of checkSystemHealth: to the main script, or to the event loop,
\* which re-arms the interval timer one period after its last due time.
ReturnFromCheck ==
  /\ pc = "check_ret"
  /\ inflight' = [inflight EXCEPT !["health"] = @ - 1]
  /\ IF caller = "main"
       THEN /\ pc' = "main_140"
            /\ UNCHANGED timers
       ELSE /\ pc' = "loop"
            /\ timers' = [timers EXCEPT !["health"].due = @ + timers["health"].period]
  /\ caller' = "none"
  /\ UNCHANGED <<consts, now, locals, tickLog, retrainLog, counters>>

\* Lines 51-65 with the debug lines printed unconditionally.
MonitorBasicHealthAlwaysDebug ==
  /\ pc = "basic_52"
  /\ tickLog' = tickLog
                \o <<Line("BASIC_HEALTH_CHECK"), Line("CPU_NORMAL"),
                     Line("MEMORY_NORMAL"), Line("DISK_ADEQUATE"),
                     Line("HOT_RELOAD_ACTIVE"), Line("DEBUG_PORT_9229"),
                     Line("HEALTHY")>>
  /\ pc' = "check_ret"
  /\ UNCHANGED <<consts, caller, now, timers, inflight, locals, retrainLog,
                 counters>>

\* Lines 51-65 followed by a call of predictFutureMetrics.
MonitorBasicHealthThenPredict ==
  /\ pc = "basic_52"
  /\ tickLog' = tickLog
                \o <<Line("BASIC_HEALTH_CHECK"), Line("CPU_NORMAL"),
                     Line("MEMORY_NORMAL"), Line("DISK_ADEQUATE")>>
                \o (IF Truthy(config, "debugMode")
                      THEN <<Line("HOT_RELOAD_ACTIVE"), Line("DEBUG_PORT_9229")>>
                      ELSE << >>)
                \o <<Line("HEALTHY"), Line("PREDICTIVE_ANALYSIS"),
                     Line("ANALYZING")>>
  /\ pc' = "pf_110"
  /\ UNCHANGED <<consts, caller, now, timers, inflight, locals, retrainLog,
                 counters>>

\* Lines 51-65: monitorBasicHealth.
MonitorBasicHealth ==
  /\ pc = "basic_52"
  /\ tickLog' = tickLog
                \o <<Line("BASIC_HEALTH_CHECK"), Line("CPU_NORMAL"),
                     Line("MEMORY_NORMAL"), Line("DISK_ADEQUATE")>>
                \o (IF Truthy(config, "debugMode")
                      THEN <<Line("HOT_RELOAD_ACTIVE"), Line("DEBUG_PORT_9229")>>
                      ELSE << >>)
                \o <<Line("HEALTHY")>>
  /\ pc' = "check_ret"
  /\ UNCHANGED <<consts, caller, now, timers, inflight, locals, retrainLog,
                 counters>>

\* --------------------------------------------------------- monitorAIHealth
\* String.prototype.toUpperCase on the provider names.
ToUpperCase(s) ==
  CASE s = "aws" -> "AWS"
    [] s = "azure" -> "AZURE"
    [] s = "gcp" -> "GCP"
    [] OTHER -> s

\* Math.max(a, b) in place of Math.max(a, b, c).
MaxOfFirstTwo(a, b, c) == IF a >= b THEN a ELSE b

\* Math.max(a, b, c)
Max3(a, b, c) == IF a >= b /\ a >= c THEN a ELSE IF b >= c THEN b ELSE c

\* value >= threshold
AtLeast(value, threshold) == value >= threshold * Unit

\* value > threshold, value in 1/Unit and threshold a whole number
Exceeds(value, threshold) == value > threshold * Unit

HasLine(log, kind) == \E i \in 1..Len(log) : log[i][1] = kind
CountLines(log, kind) == Cardinality({i \in 1..Len(log) : log[i][1] = kind})

\* Lines 69-75: header of the AI health check.
AIHeader ==
  /\ pc = "ai_69"
  /\ tickLog' = tickLog
                \o <<Line("AI_HEALTH_CHECK"), Line("AI_MONITORING_ACTIVE"),
                     <<"MODEL", config.mlModelPath>>, Line("PREDICTIVE_WINDOW"),
                     Line("CLOUDS")>>
  /\ cloudIdx' = 1
  /\ pc' = IF Len(config.cloudProviders) = 0 THEN "ai_84" ELSE "ai_77"
  /\ UNCHANGED <<consts, caller, now, timers, inflight, cloudEntry, sample,
                 prediction, retrainLog, counters>>

\* Lines 77-82 with the instance count drawn as Math.random() * 11 + 5.
CloudStatusWideInstances ==
  /\ pc = "ai_77"
  /\ \E r1 \in RandomDraws, r2 \in RandomDraws, r3 \in RandomDraws :
       cloudEntry' = [set |-> TRUE,
                      cloud |-> config.cloudProviders[cloudIdx],
                      instances |-> Floor(r1 * 11 + 5 * Unit),
                      load |-> ToFixed2(r2 * 100),
                      healthy |-> (r3 * 10 > Unit)]
  /\ tickLog' = Append(tickLog,
                       <<"CLOUD", ToUpperCase(config.cloudProviders[cloudIdx])>>)
  /\ cloudIdx' = cloudIdx + 1
  /\ pc' = IF cloudIdx = Len(config.cloudProviders) THEN "ai_84" ELSE "ai_77"
  /\ UNCHANGED <<consts, caller, now, timers, inflight, sample, prediction,
                 retrainLog, counters>>

\* Lines 77-82: one iteration of config.cloudProviders.forEach.
CloudStatus ==
  /\ pc = "ai_77"
  /\ \E r1 \in RandomDraws, r2 \in RandomDraws, r3 \in RandomDraws :
       cloudEntry' = [set |-> TRUE,
                      cloud |-> config.cloudProviders[cloudIdx],
                      instances |-> Floor(r1 * 10 + 5 * Unit),
                      load |-> ToFixed2(r2 * 100),
                      healthy |-> (r3 * 10 > Unit)]
  /\ tickLog' = Append(tickLog,
                       <<"CLOUD", ToUpperCase(config.cloudProviders[cloudIdx])>>)
  /\ cloudIdx' = cloudIdx + 1
  /\ pc' = IF cloudIdx = Len(config.cloudProviders) THEN "ai_84" ELSE "ai_77"
  /\ UNCHANGED <<consts, caller, now, timers, inflight, sample, prediction,
                 retrainLog, counters>>

\* Lines 84-91: the three readings are drawn and printed.
DrawSample ==
  /\ pc = "ai_84"
  /\ \E r1 \in RandomDraws, r2 \in RandomDraws, r3 \in RandomDraws :
       sample' = [set |-> TRUE, cpu |-> r1 * 100, memory |-> r2 * 100,
                  disk |-> r3 * 100]
  /\ cloudEntry' = NoEntry
  /\ cloudIdx' = 0
  /\ tickLog' = Append(tickLog, Line("RESOURCE_USAGE"))
  /\ pc' = "ai_93"
  /\ UNCHANGED <<consts, caller, now, timers, inflight, prediction,
                 retrainLog, counters>>

\* Lines 93-100 with a threshold that is raised after every alert.
EvaluateAdaptive ==
  /\ pc = "ai_93"
  /\ LET maxUsage == Max3(sample.cpu, sample.memory, sample.disk)
     IN  IF Exceeds(maxUsage, config.alertThreshold)
           THEN /\ tickLog' = tickLog \o <<Line("ALERT"), Line("AUTO_SCALING")>>
                /\ config' = [config EXCEPT !.alertThreshold = @ + 5]
           ELSE /\ tickLog' = tickLog \o <<Line("OPTIMAL")>>
                /\ config' = config
  /\ pc' = "ai_102"
  /\ UNCHANGED <<env, ENV, AI_MODE, caller, now, timers, inflight, locals,
                 retrainLog, counters>>

\* Lines 93-100: maxUsage against config.alertThreshold.
Evaluate ==
  /\ pc = "ai_93"
  /\ LET maxUsage == Max3(sample.cpu, sample.memory, sample.disk)
     IN  tickLog' = tickLog
                    \o (IF Exceeds(maxUsage, config.alertThreshold)
                          THEN <<Line("ALERT"), Line("AUTO_SCALING")>>
                          ELSE <<Line("OPTIMAL")>>)
  /\ pc' = "ai_102"
  /\ UNCHANGED <<consts, caller, now, timers, inflight, locals, retrainLog,
                 counters>>

\* Lines 102 and 107-108: predictFutureMetrics is called and prints its
\* header.  cpu, memory and disk are not read after line 93.
CallPredict ==
  /\ pc = "ai_102"
  /\ sample' = NoSample
  /\ tickLog' = tickLog \o <<Line("PREDICTIVE_ANALYSIS"), Line("ANALYZING")>>
  /\ pc' = "pf_110"
  /\ UNCHANGED <<consts, caller, now, timers, inflight, cloudIdx, cloudEntry,
                 prediction, retrainLog, counters>>

\* Lines 110-119 with the confidence drawn as Math.random() * 40 + 70.
DrawPredictionWide ==
  /\ pc = "pf_110"
  /\ \E r1 \in RandomDraws, r2 \in RandomDraws, r3 \in RandomDraws,
        r4 \in RandomDraws :
       prediction' = [set |-> TRUE, cpu |-> r1 * 100, memory |-> r2 * 100,
                      traffic |-> r3 * 1000,
                      confidence |-> ToFixed2(r4 * 40 + 70 * Unit)]
  /\ tickLog' = Append(tickLog, Line("FORECAST"))
  /\ pc' = "pf_121"
  /\ UNCHANGED <<consts, caller, now, timers, inflight, cloudIdx, cloudEntry,
                 sample, retrainLog, counters>>

\* Lines 110-119: the forecast is drawn and printed.
DrawPrediction ==
  /\ pc = "pf_110"
  /\ \E r1 \in RandomDraws, r2 \in RandomDraws, r3 \in RandomDraws,
        r4 \in RandomDraws :
       prediction' = [set |-> TRUE, cpu |-> r1 * 100, memory |-> r2 * 100,
                      traffic |-> r3 * 1000,
                      confidence |-> ToFixed2(r4 * 30 + 70 * Unit)]
  /\ tickLog' = Append(tickLog, Line("FORECAST"))
  /\ pc' = "pf_121"
  /\ UNCHANGED <<consts, caller, now, timers, inflight, cloudIdx, cloudEntry,
                 sample, retrainLog, counters>>

\* Lines 121-123: prediction.cpu against config.alertThreshold.
PredictiveCheck ==
  /\ pc = "pf_121"
  /\ tickLog' = IF Exceeds(prediction.cpu, config.alertThreshold)
                  THEN Append(tickLog, Line("PREDICTIVE_ALERT"))
                  ELSE tickLog
  /\ pc' = "pf_124"
  /\ UNCHANGED <<consts, caller, now, timers, inflight, locals, retrainLog,
                 counters>>

\* Lines 124 and 103: predictFutureMetrics and monitorAIHealth return.
ReturnFromPredict ==
  /\ pc = "pf_124"
  /\ prediction' = NoPrediction
  /\ pc' = "check_ret"
  /\ UNCHANGED <<consts, caller, now, timers, inflight, cloudIdx, cloudEntry,
                 sample, tickLog, retrainLog, counters>>

\* -------------------------------------------------------------- event loop
DueTimers == {t \in Tasks : timers[t].armed /\ timers[t].due <= now}
ArmedTimers == {t \in Tasks : timers[t].armed}
NextDue == CHOOSE d \in {timers[t].due : t \in ArmedTimers} :
             \A t \in ArmedTimers : d <= timers[t].due

\* The loop is idle and no timer is due: the clock moves to the next due
\* time.
Advance ==
  /\ pc = "loop"
  /\ DueTimers = {}
  /\ ArmedTimers # {}
  /\ healthFirings < MaxFirings
  /\ now' = NextDue
  /\ UNCHANGED <<consts, pc, caller, timers, inflight, locals, tickLog,
                 retrainLog, counters>>

\* The health-check timer fires although a callback is still running.
FireHealthPreemptive ==
  /\ pc \notin {"crashed", "main_135", "main_137", "main_140"}
  /\ "health" \in DueTimers
  /\ pc' = "check"
  /\ caller' = "timer"
  /\ inflight' = [inflight EXCEPT !["health"] = @ + 1]
  /\ healthTicks' = healthTicks + 1
  /\ healthFirings' = healthFirings + 1
  /\ tickLog' = << >>
  /\ UNCHANGED <<consts, now, timers, locals, retrainLog, retrainFirings>>

\* Line 136: the health-check timer is due and the loop is idle; the loop
\* calls checkSystemHealth.
FireHealth ==
  /\ pc = "loop"
  /\ "health" \in DueTimers
  /\ pc' = "check"
  /\ caller' = "timer"
  /\ inflight' = [inflight EXCEPT !["health"] = @ + 1]
  /\ healthTicks' = healthTicks + 1
  /\ healthFirings' = healthFirings + 1
  /\ tickLog' = << >>
  /\ UNCHANGED <<consts, now, timers, locals, retrainLog, retrainFirings>>

\* Line 141: the retrain timer is due and the loop is idle; the loop calls
\* the retrain callback.
FireRetrain ==
  /\ pc = "loop"
  /\ "retrain" \in DueTimers
  /\ pc' = "retrain_142"
  /\ inflight' = [inflight EXCEPT !["retrain"] = @ + 1]
  /\ retrainFirings' = retrainFirings + 1
  /\ retrainLog' = << >>
  /\ UNCHANGED <<consts, caller, now, timers, locals, tickLog, healthTicks,
                 healthFirings>>

\* Lines 142-144 under setTimeout: the timer is not re-armed.
RetrainBodyOnce ==
  /\ pc = "retrain_142"
  /\ retrainLog' = <<Line("RETRAINING"), <<"TRAINING_ACCURACY", "94.7%">>,
                     Line("MODEL_UPDATED")>>
  /\ inflight' = [inflight EXCEPT !["retrain"] = @ - 1]
  /\ timers' = [timers EXCEPT !["retrain"] = NoTimer]
  /\ pc' = "loop"
  /\ UNCHANGED <<consts, caller, now, locals, tickLog, counters>>

\* Lines 142-144: the retrain callback prints its three lines and returns;
\* the loop re-arms the timer one period after its last due time.
RetrainBody ==
  /\ pc = "retrain_142"
  /\ retrainLog' = <<Line("RETRAINING"), <<"TRAINING_ACCURACY", "94.7%">>,
                     Line("MODEL_UPDATED")>>
  /\ inflight' = [inflight EXCEPT !["retrain"] = @ - 1]
  /\ timers' = [timers EXCEPT !["retrain"].due = @ + timers["retrain"].period]
  /\ pc' = "loop"
  /\ UNCHANGED <<consts, caller, now, locals, tickLog, counters>>

\* ----------------------------------------------------------- specification
Next ==
  \/ StartupTypeError
  \/ ArmHealthTimer
  \/ EagerTick
  \/ ArmRetrainTimer
  \/ CheckSystemHealth
  \/ MonitorBasicHealth
  \/ AIHeader
  \/ CloudStatus
  \/ DrawSample
  \/ Evaluate
  \/ CallPredict
  \/ DrawPrediction
  \/ PredictiveCheck
  \/ ReturnFromPredict
  \/ ReturnFromCheck
  \/ Advance
  \/ FireHealth
  \/ FireRetrain
  \/ RetrainBody

Spec == Init /\ [][Next]_vars

\* For runs without end: when the clock has reached the bound, the loop is
\* idle and nothing is due, time is measured from the present again (the due
\* times keep their distance from the clock, the counters restart).
Rebase ==
  /\ pc = "loop"
  /\ DueTimers = {}
  /\ ArmedTimers # {}
  /\ healthFirings >= MaxFirings
  /\ now' = 0
  /\ timers' = [t \in Tasks |->
                  IF timers[t].armed
                    THEN [timers[t] EXCEPT !.due = @ - now]
                    ELSE timers[t]]
  /\ healthTicks' = 0
  /\ healthFirings' = 0
  /\ retrainFirings' = 0
  /\ UNCHANGED <<consts, pc, caller, inflight, locals, tickLog, retrainLog>>

NextLive == Next \/ Rebase

\* The thread and the event loop never stop while a step is possible: a
\* running callback runs on, and an idle loop with an armed timer waits for
\* it and calls it.
LiveSpec == Init /\ [][NextLive]_vars /\ WF_vars(NextLive)

\* ------------------------------------------------------------ vocabulary
AiOn == env.AI_MODE = "true"
EagerTickDone == pc \notin {"main_135", "main_137", "crashed"}
MainDone == pc \notin {"main_135", "main_137", "main_140", "crashed"} /\ caller # "main"
Threshold == config.alertThreshold * Unit
StatusLines == CountLines(tickLog, "ALERT") + CountLines(tickLog, "OPTIMAL")
Before(log, a, b) == \A j \in 1..Len(log) :
                       log[j][1] = b => \E i \in 1..(j - 1) : log[i][1] = a
RetrainLines == <<Line("RETRAINING"), <<"TRAINING_ACCURACY", "94.7%">>,
                  Line("MODEL_UPDATED")>>

\* ------------------------------------------------------------------ claims
\* C1: on every AI-mode health check, right after the reactive evaluation,
\* ALERT (together with the auto-scaling line) is reported exactly when one
\* of cpu, memory, disk is strictly above the alert threshold, OPTIMAL
\* otherwise (in particular when the maximum equals the threshold), and
\* from then on the check carries exactly one of the two.
C1_AlertIffMaxAboveThreshold ==
  /\ (AiOn /\ pc = "ai_102") =>
       /\ HasLine(tickLog, "ALERT") <=>
            (\/ sample.cpu > Threshold
             \/ sample.memory > Threshold
             \/ sample.disk > Threshold)
       /\ HasLine(tickLog, "ALERT") <=> HasLine(tickLog, "AUTO_SCALING")
       /\ HasLine(tickLog, "OPTIMAL") <=> ~HasLine(tickLog, "ALERT")
  /\ (AiOn /\ pc \in {"ai_102", "pf_110", "pf_121", "pf_124", "check_ret"}) =>
       StatusLines = 1
  /\ (AiOn /\ pc \in {"ai_69", "ai_77", "ai_84", "ai_93"}) => StatusLines = 0

\* The maximum equals the threshold exactly and the check reported OPTIMAL.
C1_Witness ==
  /\ AiOn /\ pc = "ai_102"
  /\ sample.cpu = Threshold /\ sample.memory < Threshold
  /\ sample.disk < Threshold
  /\ HasLine(tickLog, "OPTIMAL")

\* C2: without AI, production resolves to 60000 / 80 / debug off and
\* development to 5000 / 90 / debug on; with AI the configuration is the AI
\* profile (30000, 75, [aws, azure, gcp], 300) whatever the mode; the
\* health-check timer is armed with the resolved interval.
C2_ConfigResolution ==
  /\ (~AiOn /\ ENV = "production") =>
       /\ config.interval = 60000 /\ config.alertThreshold = 80
       /\ config.debugMode = FALSE
  /\ (~AiOn /\ ENV = "development") =>
       /\ config.interval = 5000 /\ config.alertThreshold = 90
       /\ config.debugMode = TRUE
  /\ AiOn =>
       /\ config.interval = 30000 /\ config.alertThreshold = 75
       /\ config.cloudProviders = <<"aws", "azure", "gcp">>
       /\ config.predictiveWindow = 300
       /\ config.aiEnabled = TRUE
  /\ (timers["health"].armed /\ (AiOn \/ ENV \in {"production", "development"}))
       => timers["health"].period = config.interval

\* AI enabled with an unrecognised mode, and the timer armed at 30000.
C2_Witness ==
  /\ AiOn /\ env.NODE_ENV = "staging"
  /\ timers["health"].armed /\ timers["health"].period = 30000

\* C3: without AI, a mode other than production or development runs with the
\* production profile: no crash, and the health-check timer armed at 60000.
C3_UnknownModeFallsBackToProduction ==
  (~AiOn /\ ENV \notin {"production", "development"}) =>
    /\ pc # "crashed"
    /\ timers["health"].armed => timers["health"].period = 60000
    /\ pc # "main_135" => timers["health"].armed

\* C4: the first health check is the call from the main script at time 0,
\* before any timer firing; every later one is a firing of the health-check
\* timer, the k-th at k times the period; after k firings k + 1 health
\* checks have started.
C4_EagerTickThenPeriodic ==
  /\ (pc = "check" /\ caller = "main") =>
       now = 0 /\ healthFirings = 0 /\ healthTicks = 1
  /\ (pc = "check" /\ caller = "timer") =>
       /\ healthFirings >= 1
       /\ now = healthFirings * timers["health"].period
  /\ EagerTickDone => healthTicks = healthFirings + 1
  /\ pc \in {"main_135", "main_137"} => healthTicks = 0 /\ healthFirings = 0
  /\ (timers["health"].armed /\ "interval" \in DOMAIN config) =>
       timers["health"].period = config.interval

\* Three firings of the health-check timer, four health checks.
C4_Witness ==
  /\ pc = "loop" /\ healthFirings = 3 /\ healthTicks = 4
  /\ now = 3 * timers["health"].period

\* C5: once the main script has run, the retrain timer is armed exactly in
\* AI mode, always with period 120000; its k-th firing is at k * 120000
\* (never at 0), whatever the health-check interval, and prints the fixed
\* retrain lines with accuracy 94.7%; without AI it never fires.
C5_RetrainTimer ==
  /\ MainDone => (timers["retrain"].armed <=> AiOn)
  /\ timers["retrain"].armed => AiOn /\ timers["retrain"].period = 120000
  /\ pc = "retrain_142" =>
       /\ retrainFirings >= 1
       /\ now = retrainFirings * 120000
  /\ (retrainFirings >= 1 /\ pc # "retrain_142") => retrainLog = RetrainLines
  /\ retrainFirings * 120000 <= now
  /\ ~AiOn => retrainFirings = 0 /\ retrainLog = << >>

\* The second firing of the retrain timer, at 240000, has completed.
C5_Witness ==
  /\ pc = "loop" /\ retrainFirings = 2 /\ now = 240000
  /\ retrainLog = RetrainLines /\ timers["health"].period = 30000

\* C6: on every AI-mode health check the predictive alert is printed exactly
\* when the forecast's cpu is strictly above the alert threshold, whatever
\* the forecast's memory and traffic and whatever the reactive status.
C6_PredictiveAlertIffCpuAbove ==
  /\ (AiOn /\ pc = "pf_124") =>
       (HasLine(tickLog, "PREDICTIVE_ALERT") <=> prediction.cpu > Threshold)
  /\ CountLines(tickLog, "PREDICTIVE_ALERT") <= 1
  /\ pc \in {"pf_110", "pf_121"} => ~HasLine(tickLog, "PREDICTIVE_ALERT")

\* A predictive alert after an OPTIMAL reactive status, with the lowest
\* forecast memory and traffic.
C6_Witness ==
  /\ AiOn /\ pc = "pf_124"
  /\ HasLine(tickLog, "OPTIMAL") /\ HasLine(tickLog, "PREDICTIVE_ALERT")
  /\ prediction.memory = 0 /\ prediction.traffic = 0

\* C7: without AI, every completed health check has drawn a sample and
\* reported ALERT or OPTIMAL for it against the mode's threshold.
C7_BasicTickEvaluatesSample ==
  (~AiOn /\ pc = "check_ret") =>
    /\ HasLine(tickLog, "RESOURCE_USAGE")
    /\ HasLine(tickLog, "ALERT") \/ HasLine(tickLog, "OPTIMAL")

C9_AtMostOneInFlight ==
  /\ inflight["health"] <= 1
  /\ inflight["retrain"] <= 1
  /\ inflight["health"] = 1 <=>
       pc \in {"check", "basic_52", "ai_69", "ai_77", "ai_84", "ai_93",
               "ai_102", "pf_110", "pf_121", "pf_124", "check_ret"}
  /\ inflight["retrain"] = 1 <=> pc = "retrain_142"

\* A timer-driven health check is executing while the retrain timer is due.
C9_Witness ==
  /\ inflight["health"] = 1 /\ caller = "timer"
  /\ "retrain" \in DueTimers

HealthPcs == {"check", "basic_52", "ai_69", "ai_77", "ai_84", "ai_93",
              "ai_102", "pf_110", "pf_121", "pf_124", "check_ret"}

\* A step of the retrain callback leaves the configuration and the health
\* check's locals, output, counters and timer as they are.
RetrainLeavesHealthAlone ==
  (pc = "retrain_142" \/ pc' = "retrain_142") =>
    /\ UNCHANGED <<consts, caller, locals, tickLog, healthTicks, healthFirings>>
    /\ timers'["health"] = timers["health"]
    /\ inflight'["health"] = inflight["health"]

\* A step of a health check leaves the configuration and the retrain timer,
\* its output and its counter as they are.
HealthLeavesRetrainAlone ==
  pc \in HealthPcs =>
    /\ UNCHANGED <<consts, retrainLog, retrainFirings>>
    /\ timers'["retrain"] = timers["retrain"]
    /\ inflight'["retrain"] = inflight["retrain"]

\* C10: in AI mode health checks and retrain callbacks both start again and
\* again; a timer that is due is called, whichever callback is running at
\* the time, and the clock never moves past a due timer; a step of the
\* retrain callback changes nothing a health check reads or writes, and a
\* step of a health check nothing the retrain callback reads or writes.
C10_TimersDoNotBlock ==
  /\ []<>(AiOn => pc = "check")
  /\ []<>(AiOn => pc = "retrain_142")
  /\ ("health" \in DueTimers) ~> (pc = "check")
  /\ ("retrain" \in DueTimers) ~> (pc = "retrain_142")
  /\ [][now' # now => DueTimers = {}]_vars
  /\ [][RetrainLeavesHealthAlone]_vars
  /\ [][HealthLeavesRetrainAlone]_vars

\* The retrain callback is running while the health-check timer is due.
C10_Witness ==
  /\ AiOn /\ pc = "retrain_142"
  /\ "health" \in DueTimers /\ retrainFirings >= 1


\* Every step leaves the constants, and the delay of an armed health-check
\* timer, as they are.
ConfigUntouched ==
  /\ UNCHANGED <<env, ENV, AI_MODE, config>>
  /\ timers["health"].armed =>
       /\ timers'["health"].armed
       /\ timers'["health"].period = timers["health"].period

\* C11: the configuration selected at startup is the one object the run
\* uses and no step changes it: it is the AI profile or the base profile of
\* the mode throughout, the reactive and the predictive check compare with
\* its threshold, and the health-check timer keeps the interval it was armed
\* with.
C11_ConfigNeverChanges ==
  /\ [][ConfigUntouched]_vars
  /\ [](AiOn => config = aiConfig)
  /\ []((~AiOn /\ ENV \in DOMAIN baseConfig) => config = baseConfig[ENV])
  /\ []((timers["health"].armed /\ "interval" \in DOMAIN config) =>
          timers["health"].period = config.interval)
  /\ []((AiOn /\ pc = "ai_102") =>
          (HasLine(tickLog, "ALERT") <=>
             (\/ sample.cpu > aiConfig.alertThreshold * Unit
              \/ sample.memory > aiConfig.alertThreshold * Unit
              \/ sample.disk > aiConfig.alertThreshold * Unit)))
  /\ []((AiOn /\ pc = "pf_124") =>
          (HasLine(tickLog, "PREDICTIVE_ALERT") <=>
             prediction.cpu > aiConfig.alertThreshold * Unit))

\* A late health check, after alerts and a retrain callback, still running
\* under the AI profile.
C11_Witness ==
  /\ AiOn /\ pc = "pf_124" /\ healthFirings >= 5 /\ retrainFirings >= 1
  /\ HasLine(tickLog, "ALERT") /\ HasLine(tickLog, "PREDICTIVE_ALERT")
  /\ config = aiConfig


\* C12: every forecast has a confidence (printed with two decimals, held in
\* hundredths) from 70.00 to 100.00 and a traffic that is not negative, and
\* every sampled cpu, memory and disk value lies from 0 to 100.
C12_Ranges ==
  /\ prediction.set =>
       /\ prediction.confidence >= 7000 /\ prediction.confidence <= 10000
       /\ prediction.traffic >= 0
  /\ sample.set =>
       /\ sample.cpu >= 0 /\ sample.cpu <= 100 * Unit
       /\ sample.memory >= 0 /\ sample.memory <= 100 * Unit
       /\ sample.disk >= 0 /\ sample.disk <= 100 * Unit
  /\ pc \in {"ai_93", "ai_102"} => sample.set
  /\ pc \in {"pf_121", "pf_124"} => prediction.set

\* A forecast of a timer-driven check whose confidence is rounded up to
\* 100.00 and whose traffic is 0.
C12_Witness ==
  /\ pc = "pf_121" /\ prediction.confidence = 10000
  /\ prediction.traffic = 0 /\ healthFirings >= 1


IsCloudLine(l) == l[1] = "CLOUD"
CloudLines == SelectSeq(tickLog, IsCloudLine)
ProviderLines == <<<<"CLOUD", "AWS">>, <<"CLOUD", "AZURE">>, <<"CLOUD", "GCP">>>>
ProviderNames == <<"aws", "azure", "gcp">>

\* One entry per provider, in the order aws, azure, gcp, each with an
\* instance count in 5..14 and a health flag, all before the resource
\* readout of the check, and none without AI.
ProviderEntriesInOrder ==
  /\ pc = "ai_77" => CloudLines = SubSeq(ProviderLines, 1, cloudIdx - 1)
  /\ (AiOn /\ pc \in {"ai_84", "ai_93", "ai_102", "pf_110", "pf_121", "pf_124",
                      "check_ret"}) => CloudLines = ProviderLines
  /\ \A i \in 1..Len(tickLog), j \in 1..Len(tickLog) :
       (tickLog[i][1] = "CLOUD" /\ tickLog[j][1] = "RESOURCE_USAGE") => i < j
  /\ HasLine(tickLog, "RESOURCE_USAGE") => CloudLines = ProviderLines
  /\ cloudEntry.set =>
       /\ cloudEntry.cloud = ProviderNames[cloudIdx - 1]
       /\ tickLog[Len(tickLog)] = ProviderLines[cloudIdx - 1]
       /\ cloudEntry.instances \in 5..14
       /\ cloudEntry.healthy \in BOOLEAN
  /\ ~AiOn => CloudLines = << >> /\ cloudEntry = NoEntry

\* C13 as stated: the entries are as above and every load is below 100.
C13_LoadBelow100 ==
  /\ ProviderEntriesInOrder
  /\ cloudEntry.set => cloudEntry.load >= 0 /\ cloudEntry.load < 10000

\* C13, amended: the entries are as above and every load, printed with two
\* decimals (held in hundredths), lies from 0.00 to 100.00.
C13_ProviderEntries ==
  /\ ProviderEntriesInOrder
  /\ cloudEntry.set => cloudEntry.load >= 0 /\ cloudEntry.load <= 10000

\* The last provider's entry with 14 instances, a load printed as 100.00 and
\* the DEGRADED flag.
C13_Witness ==
  /\ cloudEntry.set /\ cloudEntry.cloud = "gcp"
  /\ cloudEntry.instances = 14 /\ cloudEntry.load = 10000
  /\ ~cloudEntry.healthy


\* No step disarms a timer, and no step ends the process once the
\* health-check timer is armed.
NothingStops ==
  /\ \A t \in Tasks : timers[t].armed => timers'[t].armed
  /\ (pc # "main_135" /\ pc # "crashed") => pc' # "crashed"

\* C14: once started, the program never stops by itself: no step cancels a
\* timer, so after the main script has run the health-check timer is armed
\* in every state, and in AI mode the retrain timer too; the process ends by
\* itself only before anything was armed.
C14_NeverLeavesRunning ==
  /\ [][NothingStops]_vars
  /\ [](MainDone => timers["health"].armed)
  /\ []((MainDone /\ AiOn) => timers["retrain"].armed)
  /\ [](pc = "crashed" => (ArmedTimers = {} /\ healthTicks = 0))

\* Both timers have fired, the loop is idle and both are still armed.
C14_Witness ==
  /\ pc = "loop" /\ healthFirings >= 4 /\ retrainFirings >= 1
  /\ timers["health"].armed /\ timers["retrain"].armed
  /\ inflight = [t \in Tasks |-> 0]


AiPcs == {"ai_69", "ai_77", "ai_84", "ai_93", "ai_102", "pf_110", "pf_121",
          "pf_124"}

\* C15: AI mode is on exactly when the AI_MODE input is the string 'true';
\* with any other value the run takes the non-AI path (basic health checks
\* only, the base profile, no forecast, no retrain timer), and with 'true'
\* no basic health check runs; an unset or empty NODE_ENV runs as production.
C15_AiModeOnlyForTrue ==
  /\ AI_MODE <=> env.AI_MODE = "true"
  /\ env.AI_MODE # "true" =>
       /\ config # aiConfig
       /\ ENV \in DOMAIN baseConfig => config = baseConfig[ENV]
       /\ pc \notin AiPcs /\ pc # "retrain_142"
       /\ ~HasLine(tickLog, "AI_HEALTH_CHECK")
       /\ ~HasLine(tickLog, "FORECAST")
       /\ ~timers["retrain"].armed /\ retrainFirings = 0
       /\ pc = "check_ret" => tickLog[1] = Line("BASIC_HEALTH_CHECK")
  /\ env.AI_MODE = "true" =>
       /\ pc # "basic_52"
       /\ ~HasLine(tickLog, "BASIC_HEALTH_CHECK")
       /\ pc = "check_ret" => tickLog[1] = Line("AI_HEALTH_CHECK")
  /\ env.NODE_ENV \in {Unset, ""} =>
       /\ ENV = "production"
       /\ env.AI_MODE # "true" =>
            /\ config = baseConfig["production"]
            /\ timers["health"].armed => timers["health"].period = 60000

\* AI_MODE=TRUE with an empty NODE_ENV: a basic health check fired by the
\* timer at 60000.
C15_Witness ==
  /\ env.AI_MODE = "TRUE" /\ env.NODE_ENV = ""
  /\ pc = "check_ret" /\ caller = "timer" /\ now = 60000
  /\ HasLine(tickLog, "BASIC_HEALTH_CHECK")

\* C16: a completed non-AI health check carries the two debug lines exactly
\* when config.debugMode is true, which is exactly in development mode, and
\* its last line is the status HEALTHY; an AI-mode health check never
\* carries a debug line.
C16_DebugLinesIffDevelopment ==
  /\ (~AiOn /\ pc \in {"check_ret", "main_140", "loop"}) =>
       /\ HasLine(tickLog, "HOT_RELOAD_ACTIVE") <=> ENV = "development"
       /\ HasLine(tickLog, "DEBUG_PORT_9229") <=> ENV = "development"
       /\ HasLine(tickLog, "HOT_RELOAD_ACTIVE") <=>
            ("debugMode" \in DOMAIN config /\ config.debugMode)
       /\ tickLog[Len(tickLog)] = Line("HEALTHY")
       /\ CountLines(tickLog, "HEALTHY") = 1
  /\ AiOn =>
       /\ ~HasLine(tickLog, "HOT_RELOAD_ACTIVE")
       /\ ~HasLine(tickLog, "DEBUG_PORT_9229")

\* A timer-driven health check in development mode with the debug lines.
C16_Witness ==
  /\ ~AiOn /\ ENV = "development" /\ pc = "check_ret" /\ caller = "timer"
  /\ HasLine(tickLog, "HOT_RELOAD_ACTIVE") /\ HasLine(tickLog, "DEBUG_PORT_9229")
  /\ tickLog[Len(tickLog)] = Line("HEALTHY")

====
